---- MODULE Spec2Model ----
(***************************************************************************)
(* A model of the Spin engine of containerd-shim-spin (engine.rs):         *)
(*   - SpinEngine::run_wasi, the execution driver, with the abortable      *)
(*     pipeline wasm_exec_async and the trigger supervisor run_trigger;    *)
(*   - SpinEngine::precompile, the layer precompiler.                      *)
(* Futures are modelled at poll granularity: the pipeline runs only while  *)
(* block_on is inside a poll of the Abortable future, an await either      *)
(* completes within the poll or returns Pending, and the abort flag is     *)
(* looked at by Abortable only when a poll begins.                         *)
(***************************************************************************)
EXTENDS Integers, Sequences, FiniteSets, TLC

\* ------------------------------------------------------------------ bounds
\* Largest number of distinct trigger kinds a locked application declares.
MaxKinds == 2
\* Saturation of the per-task poll counter.
MaxPolls == 2
\* Longest layer list handed to precompile.
MaxLayers == 3

\* --------------------------------------------------------------- constants
\* The arms of the match in run_trigger.
SupportedKinds == {"http", "redis", "sqs", "command", "mqtt"}
\* A kind label with no arm in run_trigger.
UnsupportedKinds == {"foo"}
AllKinds == SupportedKinds \cup UnsupportedKinds

VarNames == {"api_key"}

\* constants::SPIN_ADDR_DEFAULT
SPIN_ADDR_DEFAULT == "0.0.0.0:80"
\* What env::var(SPIN_HTTP_LISTEN_ADDR_ENV) may hold.
ListenAddrEnv == {"unset", "127.0.0.1:8080", "localhost"}

\* The phases of wasm_exec_async, in program order.
Phases == <<"cache", "from_ctx", "to_locked_app", "bind", "triggers",
            "telemetry", "run_trigger", "select_all">>
\* The phases that contain an await.
AsyncPhases == {"cache", "from_ctx", "to_locked_app"}

VARIABLES
    \* ---- run_wasi
    pc,               \* position in run_wasi
    installed,        \* the interrupt handler is registered
    result,           \* what run_wasi returned
    aborted,          \* the flag shared by AbortHandle and Abortable
    polling,          \* block_on is inside a poll of the abortable future
    blockOn,          \* what rt.block_on(abortable) returned
    \* ---- wasm_exec_async
    phase,            \* position in wasm_exec_async / run_trigger
    inner,            \* the Result wasm_exec_async completed with
    entered,          \* phases that have begun executing
    completed,        \* phases that have completed successfully
    \* ---- run_trigger
    trigger_types,    \* the kind set handed to run_trigger
    cur,              \* the kind whose executor is being built
    executors,        \* kinds whose build_trigger returned an executor
    futures_list,     \* the run tasks, in push order
    trigger_type_map, \* the kind labels, in push order
    cursor,           \* index select_all polls next in this round
    winner,           \* (index, label, result) of the first completion
    \* ---- inputs
    app,              \* the application the image resolves to
    env,              \* the host environment
    \* ---- history
    sig,              \* where the pipeline was when the interrupt arrived
    \* ---- precompile
    layers,           \* the layer list handed to precompile
    pidx,             \* index of the next layer the iterator maps
    slots,            \* the slots collected so far
    invoked,          \* (index, operation) pairs of compiler calls made
    pout,             \* what precompile returned
    prev              \* what the previous call of precompile returned

rvars == <<pc, installed, result, aborted, polling, blockOn, phase, inner, entered,
           completed, trigger_types, cur, executors, futures_list,
           trigger_type_map, cursor, winner, app, env, sig>>
pvars == <<layers, pidx, slots, invoked, pout, prev>>
vars == <<rvars, pvars>>

\* ------------------------------------------------------------------ values
NoResult == [tag |-> "none", code |-> -1, err |-> ""]
OkCode(c) == [tag |-> "ok", code |-> c, err |-> ""]
ErrResult(e) == [tag |-> "err", code |-> -1, err |-> e]
Panicked == [tag |-> "panic", code |-> -1, err |-> ""]

NoWinner == [index |-> 0, label |-> "", res |-> "none"]
NoSig == [at |-> "none", polling |-> FALSE, blockOn |-> "none", parked |-> "none"]

Min(a, b) == IF a < b THEN a ELSE b

Range(s) == {s[i] : i \in 1..Len(s)}

\* ------------------------------------------------- collaborators of engine.rs
\* Position of a phase in wasm_exec_async.
PhaseIndex(p) == CHOOSE i \in 1..Len(Phases) : Phases[i] = p

\* NextPhase with trigger selection moved before environment binding.
NextPhaseReordered(p) ==
    CASE p = "to_locked_app" -> "triggers"
      [] p = "triggers" -> "bind"
      [] p = "bind" -> "telemetry"
      [] PhaseIndex(p) = Len(Phases) -> "returned"
      [] OTHER -> Phases[PhaseIndex(p) + 1]

\* The statement that follows phase p in wasm_exec_async / run_trigger.
NextPhase(p) ==
    IF PhaseIndex(p) < Len(Phases) THEN Phases[PhaseIndex(p) + 1] ELSE "returned"

\* The error a failing phase surfaces.
ErrOf(p) ==
    CASE p = "cache" -> "cache"
      [] p = "from_ctx" -> "resolve"
      [] p = "to_locked_app" -> "resolve"
      [] p = "bind" -> "bind"
      [] p = "triggers" -> "triggers"
      [] p = "telemetry" -> "telemetry"
      [] OTHER -> "build"

\* utils::configure_application_variables_from_environment_variables: a
\* required variable (no default) must be set in the host environment.
BindOk(a, e) == a.required \subseteq e.vars

\* trigger::get_supported_triggers: the distinct kinds of the application;
\* an unknown kind is an error, an empty result is an error.
GetSupportedTriggers(a) ==
    IF a.triggers = {} \/ ~(a.triggers \subseteq SupportedKinds)
    THEN [ok |-> FALSE, kinds |-> {}]
    ELSE [ok |-> TRUE, kinds |-> a.triggers]

\* AddressStr that always takes the default address.
AddressStrDefaultOnly(e) == SPIN_ADDR_DEFAULT

\* env::var(SPIN_HTTP_LISTEN_ADDR_ENV).unwrap_or_else(|_| SPIN_ADDR_DEFAULT)
AddressStr(e) == IF e.addr = "unset" THEN SPIN_ADDR_DEFAULT ELSE e.addr

\* utils::parse_addr: host:port, or an error.
ParseAddr(s) ==
    CASE s = "0.0.0.0:80" -> [ok |-> TRUE, host |-> "0.0.0.0", port |-> 80]
      [] s = "127.0.0.1:8080" -> [ok |-> TRUE, host |-> "127.0.0.1", port |-> 8080]
      [] OTHER -> [ok |-> FALSE, host |-> "", port |-> 0]

\* NewTask with the SQS arm running a Redis executor.
NewTaskWrongArm(k) ==
    [kind |-> IF k = "sqs" THEN "redis" ELSE k, st |-> "created", polls |-> 0]

\* NewTask for an executor whose run starts working when it is called.
NewTaskStarted(k) == [kind |-> k, st |-> "pending", polls |-> 1]

\* A run task obtained from executor.run(args): created, not yet polled.
NewTask(k) == [kind |-> k, st |-> "created", polls |-> 0]

\* Dropping a future: a task that has not completed is released.
Dropped(t) == IF t.st = "done" THEN t ELSE [t EXCEPT !.st = "dropped"]

\* Dropping every run task held by the pipeline.
DropAll(fl) == [i \in 1..Len(fl) |-> Dropped(fl[i])]

\* drop(rest) after select_all: every task but the one at index i.
DropRest(fl, i) == [j \in 1..Len(fl) |-> IF j = i THEN fl[j] ELSE Dropped(fl[j])]

\* One poll of a run task that returns Pending.
PolledPending(t) == [t EXCEPT !.st = "pending", !.polls = Min(t.polls + 1, MaxPolls)]

\* One poll of a run task that returns Ready.
PolledReady(t) == [t EXCEPT !.st = "done", !.polls = Min(t.polls + 1, MaxPolls)]

\* Translate with the inner error turned into a non-zero exit code.
TranslateErrAsCode(b, r) ==
    CASE b = "ok_ok" -> OkCode(0)
      [] b = "ok_err" -> OkCode(1)
      [] b = "aborted" -> OkCode(0)
      [] OTHER -> NoResult

\* The match on rt.block_on(abortable) in run_wasi.
Translate(b, r) ==
    CASE b = "ok_ok" -> OkCode(0)
      [] b = "ok_err" -> ErrResult(r)
      [] b = "aborted" -> OkCode(0)
      [] OTHER -> NoResult

\* ------------------------------------------------------------------- Init
Apps ==
    {[triggers |-> K, required |-> R] :
        K \in {X \in SUBSET AllKinds : Cardinality(X) <= MaxKinds},
        R \in SUBSET VarNames}

Envs == {[vars |-> V, addr |-> a] : V \in SUBSET VarNames, a \in ListenAddrEnv}

PIdle ==
    /\ layers = <<>>
    /\ pidx = 1
    /\ slots = <<>>
    /\ invoked = {}
    /\ pout = [tag |-> "none", slots |-> <<>>, err |-> ""]
    /\ prev = [tag |-> "none", slots |-> <<>>, err |-> ""]

\* The state of an invocation of run_wasi before its first statement.
RInit ==
    /\ pc = "redirect"
    /\ installed = FALSE
    /\ result = NoResult
    /\ aborted = FALSE
    /\ polling = FALSE
    /\ blockOn = "none"
    /\ phase = "cache"
    /\ inner = "none"
    /\ entered = {}
    /\ completed = {}
    /\ trigger_types = {}
    /\ cur = "none"
    /\ executors = {}
    /\ futures_list = <<>>
    /\ trigger_type_map = <<>>
    /\ cursor = 1
    /\ winner = NoWinner
    /\ sig = NoSig

Init ==
    /\ RInit
    /\ app \in Apps
    /\ env \in Envs
    /\ PIdle

\* ----------------------------------------------------------------- run_wasi
\* SetupFail with the error discarded: run_wasi goes on to its next
\* statement.
SetupFailIgnored(e) ==
    /\ result' = result
    /\ pc' = CASE e = "redirect" -> "runtime"
               [] e = "runtime" -> "handler"
               [] OTHER -> "block_on"

\* A `?` in the setup of run_wasi that returns the error.
SetupFail(e) ==
    /\ result' = ErrResult(e)
    /\ pc' = "done"

\* stdio.redirect()?
Redirect ==
    /\ pc = "redirect"
    /\ \/ pc' = "runtime" /\ UNCHANGED result
       \/ SetupFail("redirect")
    /\ UNCHANGED <<aborted, polling, blockOn, phase, inner, entered, completed,
                   trigger_types, cur, executors, futures_list,
                   trigger_type_map, cursor, winner, app, env, sig, installed, pvars>>

\* Runtime::new().context("failed to create runtime")?
CreateRuntime ==
    /\ pc = "runtime"
    /\ \/ pc' = "handler" /\ UNCHANGED result
       \/ SetupFail("runtime")
    /\ UNCHANGED <<aborted, polling, blockOn, phase, inner, entered, completed,
                   trigger_types, cur, executors, futures_list,
                   trigger_type_map, cursor, winner, app, env, sig, installed, pvars>>

\* futures::future::abortable(...) and ctrlc::set_handler(...)?
SetHandler ==
    /\ pc = "handler"
    /\ \/ pc' = "block_on" /\ installed' = TRUE /\ UNCHANGED result
       \/ SetupFail("handler") /\ UNCHANGED installed
    /\ UNCHANGED <<aborted, polling, blockOn, phase, inner, entered, completed,
                   trigger_types, cur, executors, futures_list,
                   trigger_type_map, cursor, winner, app, env, sig, pvars>>

\* Interrupt with a handler that does not abort the pipeline.
InterruptIgnored ==
    /\ pc = "block_on"
    /\ installed
    /\ sig.at = "none"
    /\ sig' = [at |-> phase, polling |-> polling, blockOn |-> blockOn,
               parked |-> IF ~polling /\ blockOn = "none" THEN phase ELSE "none"]
    /\ UNCHANGED <<pc, result, aborted, polling, blockOn, phase, inner,
                   entered, completed, trigger_types, cur, executors,
                   futures_list, trigger_type_map, cursor, winner, app, env,
                   installed, pvars>>

\* The installed handler runs on the signal: abort_handle.abort().
Interrupt ==
    /\ pc = "block_on"
    /\ installed
    /\ ~aborted
    /\ aborted' = TRUE
    /\ sig' = [at |-> phase, polling |-> polling, blockOn |-> blockOn,
               parked |-> IF ~polling /\ blockOn = "none" THEN phase ELSE "none"]
    /\ UNCHANGED <<pc, result, polling, blockOn, phase, inner, entered,
                   completed, trigger_types, cur, executors, futures_list,
                   trigger_type_map, cursor, winner, app, env, installed, pvars>>

\* PollStart without the look at the abort flag.
PollStartBlind ==
    /\ pc = "block_on"
    /\ blockOn = "none"
    /\ ~polling
    /\ polling' = TRUE
    /\ UNCHANGED <<pc, result, aborted, blockOn, futures_list, phase, inner,
                   entered, completed, trigger_types, cur, executors,
                   trigger_type_map, cursor, winner, app, env, sig, installed, pvars>>

\* block_on polls the Abortable: an abort seen at the start of a poll ends
\* block_on with Err(Aborted) and the pipeline future is dropped; otherwise
\* the pipeline is polled.
PollStart ==
    /\ pc = "block_on"
    /\ blockOn = "none"
    /\ ~polling
    /\ IF aborted
       THEN /\ blockOn' = "aborted"
            /\ futures_list' = DropAll(futures_list)
            /\ UNCHANGED polling
       ELSE /\ polling' = TRUE
            /\ UNCHANGED <<blockOn, futures_list>>
    /\ UNCHANGED <<pc, result, aborted, phase, inner, entered, completed,
                   trigger_types, cur, executors, trigger_type_map, cursor,
                   winner, app, env, sig, installed, pvars>>

\* The match on the value of block_on, and the return of run_wasi.
MatchBlockOn ==
    /\ pc = "block_on"
    /\ blockOn # "none"
    /\ result' = Translate(blockOn, inner)
    /\ pc' = "done"
    /\ UNCHANGED <<aborted, polling, blockOn, phase, inner, entered, completed,
                   trigger_types, cur, executors, futures_list,
                   trigger_type_map, cursor, winner, app, env, sig, installed, pvars>>

\* Complete with the abort flag consulted once more before the output of the
\* inner future is handed to block_on.
CompleteAbortFirst(r, fl) ==
    /\ inner' = r
    /\ blockOn' = IF aborted THEN "aborted"
                  ELSE IF r = "ok" THEN "ok_ok" ELSE "ok_err"
    /\ polling' = FALSE
    /\ phase' = "returned"
    /\ futures_list' = DropAll(fl)

\* ---------------------------------------------------------- wasm_exec_async
\* The pipeline future completes with r inside a poll: Abortable hands
\* Ok(r) to block_on without looking at the abort flag again, and the
\* pipeline future, with every run task it holds, is dropped.
Complete(r, fl) ==
    /\ inner' = r
    /\ blockOn' = IF r = "ok" THEN "ok_ok" ELSE "ok_err"
    /\ polling' = FALSE
    /\ phase' = "returned"
    /\ futures_list' = DropAll(fl)

\* A panic inside the pipeline unwinds through block_on and run_wasi.
Panic ==
    /\ result' = Panicked
    /\ pc' = "done"
    /\ polling' = FALSE
    /\ phase' = "returned"
    /\ futures_list' = DropAll(futures_list)

\* A phase ends with Ok and the pipeline goes on to the next statement.
Advance(p) ==
    /\ completed' = completed \cup {p}
    /\ phase' = NextPhase(p)

\* Propagate with the error discarded: the pipeline goes on.
PropagateIgnored(p) ==
    /\ phase' = NextPhase(p)
    /\ UNCHANGED <<inner, blockOn, polling, futures_list>>

\* The `?` after a phase: an error ends the pipeline with that error.
Propagate(p) == Complete(ErrOf(p), futures_list)

\* An await returns Pending: the poll of the pipeline ends and block_on
\* parks until a wake-up. sig.parked records the first suspension at which
\* the abort flag is already set.
Suspend ==
    /\ polling' = FALSE
    /\ sig' = IF aborted /\ sig.parked = "none"
              THEN [sig EXCEPT !.parked = phase]
              ELSE sig

Running(p) ==
    /\ pc = "block_on"
    /\ polling
    /\ phase = p

\* initialize_cache().await?, Source::from_ctx(..).await?,
\* app_source.to_locked_app(..).await?: each may complete within the poll,
\* fail, or return Pending.
AwaitPhase(p) ==
    /\ Running(p)
    /\ entered' = entered \cup {p}
    /\ \/ /\ Advance(p)
          /\ UNCHANGED <<polling, blockOn, inner, futures_list, sig>>
       \/ /\ Propagate(p)
          /\ UNCHANGED <<completed, sig>>
       \/ /\ Suspend
          /\ UNCHANGED <<phase, completed, blockOn, inner, futures_list>>
    /\ UNCHANGED <<pc, result, aborted, trigger_types, cur, executors,
                   trigger_type_map, cursor, winner, app, env, installed, pvars>>

\* configure_application_variables_from_environment_variables(&locked_app)?
Bind ==
    /\ Running("bind")
    /\ entered' = entered \cup {"bind"}
    /\ IF BindOk(app, env)
       THEN /\ Advance("bind")
            /\ UNCHANGED <<polling, blockOn, inner, futures_list>>
       ELSE /\ Propagate("bind")
            /\ UNCHANGED completed
    /\ UNCHANGED <<pc, result, aborted, trigger_types, cur, executors,
                   trigger_type_map, cursor, winner, app, env, sig, installed, pvars>>

\* TriggerCmds with the error replaced by the default (empty) set.
TriggerCmdsOrDefault(a) ==
    IF GetSupportedTriggers(a).ok
    THEN GetSupportedTriggers(a)
    ELSE [ok |-> TRUE, kinds |-> {}]

\* get_supported_triggers(&locked_app).with_context(..): the Result the `?`
\* of wasm_exec_async looks at.
TriggerCmds(a) == GetSupportedTriggers(a)

\* let trigger_cmds = get_supported_triggers(&locked_app).with_context(..)?
SelectTriggers ==
    /\ Running("triggers")
    /\ entered' = entered \cup {"triggers"}
    /\ IF TriggerCmds(app).ok
       THEN /\ Advance("triggers")
            /\ trigger_types' = TriggerCmds(app).kinds
            /\ UNCHANGED <<polling, blockOn, inner, futures_list>>
       ELSE /\ Propagate("triggers")
            /\ UNCHANGED <<completed, trigger_types>>
    /\ UNCHANGED <<pc, result, aborted, cur, executors, trigger_type_map,
                   cursor, winner, app, env, sig, installed, pvars>>

\* let _telemetry_guard = spin_telemetry::init(..)?
Telemetry ==
    /\ Running("telemetry")
    /\ entered' = entered \cup {"telemetry"}
    /\ \/ /\ Advance("telemetry")
          /\ UNCHANGED <<polling, blockOn, inner, futures_list>>
       \/ /\ Propagate("telemetry")
          /\ UNCHANGED completed
    /\ UNCHANGED <<pc, result, aborted, trigger_types, cur, executors,
                   trigger_type_map, cursor, winner, app, env, sig, installed, pvars>>

\* -------------------------------------------------------------- run_trigger
\* The kinds the for loop has not reached yet.
Remaining == trigger_types \ Range(trigger_type_map)

\* for trigger_type in trigger_types.iter(): the next kind of the set, in
\* the set's iteration order, or the end of the loop.
NextKind ==
    /\ Running("run_trigger")
    /\ cur = "none"
    /\ entered' = entered \cup {"run_trigger"}
    /\ IF Remaining = {}
       THEN /\ Advance("run_trigger")
            /\ cursor' = 1
            /\ UNCHANGED cur
       ELSE /\ \E k \in Remaining : cur' = k
            /\ UNCHANGED <<phase, completed, cursor>>
    /\ UNCHANGED <<pc, result, aborted, polling, blockOn, inner,
                   trigger_types, executors, futures_list, trigger_type_map,
                   winner, app, env, sig, installed, pvars>>

\* PushTask with the label put at the front of the label list.
PushTaskLabelFirst(k) ==
    /\ trigger_type_map' = <<k>> \o trigger_type_map
    /\ futures_list' = Append(futures_list, NewTask(k))

\* trigger_type_map.push(trigger_type.clone()); futures_list.push(f)
PushTask(k) ==
    /\ trigger_type_map' = Append(trigger_type_map, k)
    /\ futures_list' = Append(futures_list, NewTask(k))

\* The body of the loop for kind cur: build_trigger::<T>(..).await?, for
\* HTTP parse_addr(&address_str)?, then executor.run(args) and the pushes.
\* A kind with no arm reaches unreachable!().
BuildTrigger ==
    /\ Running("run_trigger")
    /\ cur # "none"
    /\ IF cur \notin SupportedKinds
       THEN /\ Panic
            /\ UNCHANGED <<blockOn, inner, cur, executors, trigger_type_map,
                           sig>>
       ELSE \/ /\ Suspend
               /\ UNCHANGED <<pc, result, blockOn, inner, phase, cur,
                              executors, futures_list, trigger_type_map>>
            \/ /\ Complete("build", futures_list)
               /\ cur' = "none"
               /\ UNCHANGED <<pc, result, executors, trigger_type_map, sig>>
            \/ /\ executors' = executors \cup {cur}
               /\ cur' = "none"
               /\ IF cur = "http" /\ ~ParseAddr(AddressStr(env)).ok
                  THEN /\ Complete("addr", futures_list)
                       /\ UNCHANGED <<pc, result, trigger_type_map, sig>>
                  ELSE /\ PushTask(cur)
                       /\ UNCHANGED <<pc, result, polling, blockOn, inner,
                                      phase, sig>>
    /\ UNCHANGED <<aborted, entered, completed, trigger_types, cursor, winner,
                   app, env, installed, pvars>>

\* FirstCompletion with Ok(()) returned in place of the task's result.
FirstCompletionOk(i, r) ==
    /\ winner' = [index |-> i, label |-> trigger_type_map[i], res |-> r]
    /\ Complete("ok", DropRest([futures_list EXCEPT ![i] = PolledReady(@)], i))

\* select_all returned (result, index, rest): the label is
\* trigger_type_map[index], rest is dropped and result is returned.
FirstCompletion(i, r) ==
    /\ winner' = [index |-> i, label |-> trigger_type_map[i], res |-> r]
    /\ Complete(r, DropRest([futures_list EXCEPT ![i] = PolledReady(@)], i))

\* One step of a poll of future::select_all(futures_list).await: the tasks
\* are polled in list order; the first that is Ready ends select_all, and
\* when none is the poll returns Pending. select_all asserts that the list
\* it is given is not empty.
PollTask ==
    /\ Running("select_all")
    /\ entered' = entered \cup {"select_all"}
    /\ IF Len(futures_list) = 0
       THEN /\ Panic
            /\ UNCHANGED <<blockOn, inner, cursor, winner, sig>>
       ELSE /\ cursor \in 1..Len(futures_list)
            /\ \/ /\ futures_list' =
                        [futures_list EXCEPT ![cursor] = PolledPending(@)]
                  /\ IF cursor = Len(futures_list)
                     THEN Suspend /\ cursor' = 1
                     ELSE cursor' = cursor + 1 /\ UNCHANGED <<polling, sig>>
                  /\ UNCHANGED <<blockOn, inner, phase, winner>>
               \/ /\ \E r \in {"ok", "trigger"} : FirstCompletion(cursor, r)
                  /\ UNCHANGED <<cursor, sig>>
            /\ UNCHANGED <<pc, result>>
    /\ UNCHANGED <<aborted, completed, trigger_types, cur, executors,
                   trigger_type_map, app, env, installed, pvars>>

RunNext ==
    \/ Redirect
    \/ CreateRuntime
    \/ SetHandler
    \/ Interrupt
    \/ PollStart
    \/ MatchBlockOn
    \/ \E p \in AsyncPhases : AwaitPhase(p)
    \/ Bind
    \/ SelectTriggers
    \/ Telemetry
    \/ NextKind
    \/ BuildTrigger
    \/ PollTask

\* The steps the running thread takes by itself.
Step ==
    \/ Redirect
    \/ CreateRuntime
    \/ SetHandler
    \/ MatchBlockOn
    \/ \E p \in AsyncPhases : AwaitPhase(p)
    \/ Bind
    \/ SelectTriggers
    \/ Telemetry
    \/ NextKind
    \/ BuildTrigger
    \/ PollTask

\* abort() wakes the task block_on is parked on: the Abortable is polled.
AbortWake == aborted /\ PollStart

Next == RunNext

Spec == Init /\ [][Next]_vars

\* The running thread keeps running, and an abort wakes block_on.
FairSpec == Spec /\ WF_vars(Step) /\ WF_vars(AbortWake)

\* -------------------------------------------------------------- precompile
\* Layer contents: the format of the bytes, which artifact they are, and
\* whether a component was produced by adapting a module.
Bytes(f, i, a) == [fmt |-> f, id |-> i, adapted |-> a]
NoBytes == Bytes("", "", FALSE)

\* The byte sequences layers are drawn from: raw modules, a raw component,
\* artifacts already precompiled, a component the compiler rejects, and
\* bytes that are no Wasm at all (such as the empty sequence).
LayerBytes ==
    {Bytes("module", "a", FALSE), Bytes("module", "b", FALSE),
     Bytes("component", "a", FALSE), Bytes("badcomponent", "a", FALSE),
     Bytes("cwasm", "a", FALSE), Bytes("cwasm", "b", FALSE),
     Bytes("junk", "a", FALSE)}

\* constants::OCI_LAYER_MEDIA_TYPE_WASM and spin_oci::client::DATA_MEDIATYPE
MediaTypes == {"wasm", "data"}

Layers == {[media |-> m, layer |-> b] : m \in MediaTypes, b \in LayerBytes}

RECURSIVE SeqsUpTo(_, _)
SeqsUpTo(S, n) ==
    IF n = 0 THEN {<<>>}
    ELSE LET shorter == SeqsUpTo(S, n - 1)
         IN shorter \cup {Append(q, x) : q \in {t \in shorter : Len(t) = n - 1}, x \in S}

None == [some |-> FALSE, bytes |-> NoBytes]
Some(b) == [some |-> TRUE, bytes |-> b]

\* utils::is_wasm_content: the layer when its media type is the bare-Wasm
\* one, nothing otherwise.
IsWasmContent(l) == l.media = "wasm"

\* wasmtime::Engine::detect_precompiled(bytes).is_some()
DetectPrecompiled(b) == b.fmt = "cwasm"

\* spin_componentize::componentize_if_necessary: a component is returned as
\* it is, a module is adapted into a component, anything else is an error.
Componentize(b) ==
    CASE b.fmt \in {"component", "badcomponent"} -> [ok |-> TRUE, bytes |-> b]
      [] b.fmt = "module" -> [ok |-> TRUE, bytes |-> Bytes("component", b.id, TRUE)]
      [] OTHER -> [ok |-> FALSE, bytes |-> NoBytes]

\* wasmtime::Engine::precompile_component: the serialized artifact of a
\* valid component, an error otherwise.
PrecompileComponent(b) ==
    IF b.fmt = "component"
    THEN [ok |-> TRUE, bytes |-> Bytes("cwasm", b.id, b.adapted)]
    ELSE [ok |-> FALSE, bytes |-> NoBytes]

\* PrecompileLayer without the detect_precompiled test: every Wasm layer is
\* componentized and compiled.
PrecompileLayerNoDetect(l) ==
    IF ~IsWasmContent(l)
    THEN [ok |-> TRUE, slot |-> None, err |-> "", calls |-> {}]
    ELSE LET c == Componentize(l.layer)
             p == PrecompileComponent(c.bytes)
         IN IF ~c.ok
            THEN [ok |-> FALSE, slot |-> None, err |-> "componentize",
                  calls |-> {"componentize"}]
            ELSE IF ~p.ok
            THEN [ok |-> FALSE, slot |-> None, err |-> "compile",
                  calls |-> {"componentize", "precompile_component"}]
            ELSE [ok |-> TRUE, slot |-> Some(p.bytes), err |-> "",
                  calls |-> {"componentize", "precompile_component"}]

\* PrecompileLayer with a failed componentization or compilation turned into
\* an absent slot.
PrecompileLayerErrAsNone(l) ==
    IF ~IsWasmContent(l)
    THEN [ok |-> TRUE, slot |-> None, err |-> "", calls |-> {}]
    ELSE IF DetectPrecompiled(l.layer)
    THEN [ok |-> TRUE, slot |-> Some(l.layer), err |-> "", calls |-> {}]
    ELSE LET c == Componentize(l.layer)
             p == PrecompileComponent(c.bytes)
         IN IF ~c.ok
            THEN [ok |-> TRUE, slot |-> None, err |-> "",
                  calls |-> {"componentize"}]
            ELSE IF ~p.ok
            THEN [ok |-> TRUE, slot |-> None, err |-> "",
                  calls |-> {"componentize", "precompile_component"}]
            ELSE [ok |-> TRUE, slot |-> Some(p.bytes), err |-> "",
                  calls |-> {"componentize", "precompile_component"}]

\* PrecompileLayer returning the componentized bytes, not compiled.
PrecompileLayerReturnsComponent(l) ==
    IF ~IsWasmContent(l)
    THEN [ok |-> TRUE, slot |-> None, err |-> "", calls |-> {}]
    ELSE IF DetectPrecompiled(l.layer)
    THEN [ok |-> TRUE, slot |-> Some(l.layer), err |-> "", calls |-> {}]
    ELSE LET c == Componentize(l.layer)
         IN IF ~c.ok
            THEN [ok |-> FALSE, slot |-> None, err |-> "componentize",
                  calls |-> {"componentize"}]
            ELSE [ok |-> TRUE, slot |-> Some(c.bytes), err |-> "",
                  calls |-> {"componentize"}]

\* The closure precompile maps over the layers.
PrecompileLayer(l) ==
    IF ~IsWasmContent(l)
    THEN [ok |-> TRUE, slot |-> None, err |-> "", calls |-> {}]
    ELSE IF DetectPrecompiled(l.layer)
    THEN [ok |-> TRUE, slot |-> Some(l.layer), err |-> "", calls |-> {}]
    ELSE LET c == Componentize(l.layer)
             p == PrecompileComponent(c.bytes)
         IN IF ~c.ok
            THEN [ok |-> FALSE, slot |-> None, err |-> "componentize",
                  calls |-> {"componentize"}]
            ELSE IF ~p.ok
            THEN [ok |-> FALSE, slot |-> None, err |-> "compile",
                  calls |-> {"componentize", "precompile_component"}]
            ELSE [ok |-> TRUE, slot |-> Some(p.bytes), err |-> "",
                  calls |-> {"componentize", "precompile_component"}]

NoOutput == [tag |-> "none", slots |-> <<>>, err |-> ""]

\* Collected with the absent slots filtered out of the result.
CollectedFiltered(acc, slot) == IF slot.some THEN Append(acc, slot) ELSE acc

\* collect() keeps every Ok item of the iterator, in order.
Collected(acc, slot) == Append(acc, slot)

\* MapLayer taking the bytes out of each Wasm layer it maps, which leaves
\* the layer empty.
MapLayerTakesBytes ==
    /\ pout.tag = "none"
    /\ pidx <= Len(layers)
    /\ LET r == PrecompileLayer(layers[pidx])
       IN /\ invoked' = invoked \cup {<<pidx, c>> : c \in r.calls}
          /\ IF r.ok
             THEN /\ slots' = Collected(slots, r.slot)
                  /\ pidx' = pidx + 1
                  /\ layers' = IF r.slot.some
                                THEN [layers EXCEPT ![pidx].layer = NoBytes]
                                ELSE layers
                  /\ UNCHANGED pout
             ELSE /\ pout' = [tag |-> "err", slots |-> <<>>, err |-> r.err]
                  /\ UNCHANGED <<slots, pidx, layers>>
    /\ UNCHANGED <<prev, rvars>>

\* collect::<anyhow::Result<_>>() takes the next mapped layer: an Ok slot is
\* kept in order, the first Err ends the collection and is returned by `?`.
MapLayer ==
    /\ pout.tag = "none"
    /\ pidx <= Len(layers)
    /\ LET r == PrecompileLayer(layers[pidx])
       IN /\ invoked' = invoked \cup {<<pidx, c>> : c \in r.calls}
          /\ IF r.ok
             THEN /\ slots' = Collected(slots, r.slot)
                  /\ pidx' = pidx + 1
                  /\ UNCHANGED pout
             ELSE /\ pout' = [tag |-> "err", slots |-> <<>>, err |-> r.err]
                  /\ UNCHANGED <<slots, pidx>>
    /\ UNCHANGED <<layers, prev, rvars>>

\* Ok(precompiled_layers)
ReturnLayers ==
    /\ pout.tag = "none"
    /\ pidx > Len(layers)
    /\ pout' = [tag |-> "ok", slots |-> slots, err |-> ""]
    /\ UNCHANGED <<layers, pidx, slots, invoked, prev, rvars>>

\* The shim calls precompile(L) again on the same engine and the same layer
\* list: the iterator, the collection and the result of the new call are
\* fresh locals, and the result of the call before is remembered in prev.
CallAgain ==
    /\ pout.tag # "none"
    /\ prev.tag = "none"
    /\ prev' = pout
    /\ pidx' = 1
    /\ slots' = <<>>
    /\ invoked' = {}
    /\ pout' = NoOutput
    /\ UNCHANGED <<layers, rvars>>

\* A call precompile(L) for a layer list L; no container is running.
PInit ==
    /\ RInit
    /\ app = [triggers |-> {}, required |-> {}]
    /\ env = [vars |-> {}, addr |-> "unset"]
    /\ layers \in SeqsUpTo(Layers, MaxLayers)
    /\ pidx = 1
    /\ slots = <<>>
    /\ invoked = {}
    /\ pout = NoOutput
    /\ prev = NoOutput

PNext ==
    \/ MapLayer
    \/ ReturnLayers
    \/ CallAgain

PSpec == PInit /\ [][PNext]_vars

\* ================================================================== claims
\* ----------------------------------------------------------------------- C1
\* C1: a successful precompile(L) returns exactly Len(L) slots, slot i
\* belongs to layer i (a present slot carries the artifact of layer i, and a
\* slot is present exactly when layer i is Wasm content), every slot of a
\* layer that is not Wasm content is absent, and the empty list gives the
\* empty result.
C1_SlotsMatchLayers ==
    pout.tag = "ok" =>
        /\ Len(pout.slots) = Len(layers)
        /\ \A i \in 1..Len(layers) :
              /\ i <= Len(pout.slots)
              /\ ~IsWasmContent(layers[i]) => pout.slots[i] = None
              /\ IsWasmContent(layers[i]) =>
                    /\ pout.slots[i].some
                    /\ pout.slots[i].bytes.id = layers[i].layer.id
        /\ (layers = <<>> => pout.slots = <<>>)

\* A successful call on a raw module, a precompiled artifact and a data
\* blob, the layer list of the repository's test.
C1_Witness ==
    /\ pout.tag = "ok"
    /\ Len(layers) = 3
    /\ layers[1] = [media |-> "wasm", layer |-> Bytes("module", "a", FALSE)]
    /\ layers[2] = [media |-> "wasm", layer |-> Bytes("cwasm", "b", FALSE)]
    /\ layers[3] = [media |-> "data", layer |-> Bytes("junk", "a", FALSE)]
    /\ pout.slots[3] = None

\* ----------------------------------------------------------------------- C2
\* Every Wasm entry of the layer list is recognised as precompiled.
AllWasmPrecompiled ==
    \A i \in 1..Len(layers) :
        IsWasmContent(layers[i]) => DetectPrecompiled(layers[i].layer)

\* C2: when every Wasm entry of L is already precompiled, precompile(L)
\* never fails, makes no componentize or precompile_component call, and
\* returns each of those entries unchanged at its position.
C2_PrecompiledPassThrough ==
    AllWasmPrecompiled =>
        /\ pout.tag # "err"
        /\ invoked = {}
        /\ pout.tag = "ok" =>
              /\ Len(pout.slots) = Len(layers)
              /\ \A i \in 1..Len(layers) :
                    IsWasmContent(layers[i]) =>
                        pout.slots[i] = Some(layers[i].layer)

\* A successful call on two different precompiled artifacts and a data blob.
C2_Witness ==
    /\ AllWasmPrecompiled
    /\ pout.tag = "ok"
    /\ Len(layers) = 3
    /\ layers[1] = [media |-> "wasm", layer |-> Bytes("cwasm", "a", FALSE)]
    /\ layers[2] = [media |-> "data", layer |-> Bytes("module", "a", FALSE)]
    /\ layers[3] = [media |-> "wasm", layer |-> Bytes("cwasm", "b", FALSE)]
    /\ pout.slots[3] = Some(Bytes("cwasm", "b", FALSE))

\* ----------------------------------------------------------------------- C3
\* C3: run_wasi returns Ok(0) when the pipeline completed with Ok, the
\* pipeline's own error when it completed with an error, and Ok(0) when
\* block_on ended with Aborted; an Ok it returns always carries 0.
C3_OutcomeTranslation ==
    /\ blockOn = "ok_ok" <=> inner = "ok"
    /\ blockOn = "ok_err" => inner \notin {"none", "ok"}
    /\ blockOn = "aborted" => aborted
    /\ pc = "done" =>
          /\ blockOn = "ok_ok" => result = OkCode(0)
          /\ blockOn = "ok_err" => result = ErrResult(inner)
          /\ blockOn = "aborted" => result = OkCode(0)
          /\ result.tag = "ok" =>
                /\ result.code = 0
                /\ blockOn \in {"ok_ok", "aborted"}

\* run_wasi returned the error a trigger task completed with.
C3_Witness ==
    /\ pc = "done"
    /\ blockOn = "ok_err"
    /\ winner.res = "trigger"
    /\ result = ErrResult("trigger")

\* ----------------------------------------------------------------------- C4
NotCompleted(t) == t.st # "done"

\* The supervisor has returned with the first completion.
C4_FirstWins ==
    /\ winner.index = 0 => \A j \in 1..Len(futures_list) : NotCompleted(futures_list[j])
    /\ winner.index # 0 =>
          /\ winner.index \in 1..Len(futures_list)
          /\ futures_list[winner.index].st = "done"
          /\ \A j \in 1..Len(futures_list) :
                j # winner.index => futures_list[j].st = "dropped"
          /\ inner = winner.res
          /\ pc = "done" =>
                result = IF winner.res = "ok" THEN OkCode(0)
                         ELSE ErrResult(winner.res)

\* C4: the first run task that completes, with Ok or with an error, gives
\* the supervisor (and run_wasi) its result; every other task is dropped
\* without having completed, and once the supervisor has returned no task
\* is polled or changes again.
C4_FirstCompletion ==
    /\ []C4_FirstWins
    /\ [][winner.index # 0 => futures_list' = futures_list /\ winner' = winner]_vars

\* Command and HTTP triggers: the Command task completes with Ok first, the
\* HTTP task was running and is dropped, run_wasi returns 0.
C4_Witness ==
    /\ pc = "done"
    /\ app.triggers = {"command", "http"}
    /\ winner.label = "command"
    /\ winner.res = "ok"
    /\ result = OkCode(0)
    /\ \E j \in 1..Len(futures_list) :
          /\ futures_list[j].kind = "http"
          /\ futures_list[j].st = "dropped"
          /\ futures_list[j].polls > 0

\* ----------------------------------------------------------------------- C5
\* The for loop of run_trigger has ended and select_all is given the tasks.
Launched == "run_trigger" \in completed

TaskKinds == {futures_list[i].kind : i \in 1..Len(futures_list)}

\* C5: the supervisor never holds two executors of one kind nor one of a
\* kind the application does not declare, each task runs the executor of
\* the kind it is labelled with, and when the tasks are launched there are
\* exactly as many as declared kinds, one per kind. When a declared kind is
\* unsupported, no executor is built, nothing panics, and once trigger
\* selection has run the pipeline has failed with its error, which run_wasi
\* returns.
C5_OneExecutorPerKind ==
    /\ executors \subseteq app.triggers
    /\ TaskKinds \subseteq executors
    /\ Len(futures_list) = Cardinality(TaskKinds)
    /\ Len(futures_list) <= Len(trigger_type_map)
    /\ \A i \in 1..Len(futures_list) : futures_list[i].kind = trigger_type_map[i]
    /\ Launched =>
          /\ Len(futures_list) = Cardinality(app.triggers)
          /\ TaskKinds = app.triggers
          /\ executors = app.triggers
    /\ ~(app.triggers \subseteq SupportedKinds) =>
          /\ executors = {}
          /\ futures_list = <<>>
          /\ cur = "none"
          /\ result.tag # "panic"
          /\ "triggers" \in entered => inner = "triggers"
          /\ (pc = "done" /\ "triggers" \in entered) =>
                result = ErrResult("triggers")

\* Two declared kinds, two executors, two launched tasks.
C5_Witness ==
    /\ Launched
    /\ app.triggers = {"sqs", "mqtt"}
    /\ Len(futures_list) = 2
    /\ executors = {"sqs", "mqtt"}
    /\ phase = "select_all"

\* ----------------------------------------------------------------------- C6
\* C6: with no declared trigger the supervisor is never entered, no executor
\* is built and nothing panics; once trigger selection has run the pipeline
\* has failed with the selection error, which run_wasi returns. The
\* supervisor is never entered with an empty kind set.
C6_NoTriggersIsAnError ==
    /\ app.triggers = {} =>
          /\ executors = {}
          /\ futures_list = <<>>
          /\ phase \notin {"run_trigger", "select_all"}
          /\ entered \cap {"run_trigger", "select_all"} = {}
          /\ result.tag # "panic"
          /\ "triggers" \in entered => inner = "triggers"
          /\ (pc = "done" /\ "triggers" \in entered) =>
                result = ErrResult("triggers")
    /\ phase \in {"run_trigger", "select_all"} => trigger_types # {}

\* A zero-trigger application: run_wasi returned the selection error.
C6_Witness ==
    /\ app.triggers = {}
    /\ "triggers" \in entered
    /\ pc = "done"
    /\ result = ErrResult("triggers")

\* ----------------------------------------------------------------------- C7
Earlier(p) == {Phases[i] : i \in 1..(PhaseIndex(p) - 1)}

\* C7: a phase begins only after every earlier phase has completed with Ok
\* (cache, resolution, binding, selection, supervision, in that order), so a
\* failed phase is the last one that ran; no executor is being built, exists
\* or runs before resolution and binding have completed.
C7_PhaseOrder ==
    /\ completed \subseteq entered
    /\ \A p \in entered : Earlier(p) \subseteq completed
    /\ phase \in Range(Phases) => Earlier(phase) \subseteq completed
    /\ (cur # "none" \/ executors # {} \/ futures_list # <<>>) =>
          {"cache", "from_ctx", "to_locked_app", "bind", "triggers"}
              \subseteq completed
    /\ \A p \in entered \ completed :
          phase = "returned" => \A q \in entered : PhaseIndex(q) <= PhaseIndex(p)

\* Every phase ran, in order, up to a first completion.
C7_Witness ==
    /\ entered = Range(Phases)
    /\ winner.index # 0
    /\ pc = "done"

\* ----------------------------------------------------------------------- C8
Resolution == {"from_ctx", "to_locked_app"}

\* C8 as stated: an interrupt received while the pipeline is in source
\* resolution makes run_wasi return Ok(0) with no executor ever built.
C8_AsStated ==
    (sig.at \in Resolution /\ sig.blockOn = "none") =>
        /\ executors = {}
        /\ cur = "none"
        /\ pc = "done" => result = OkCode(0)

\* C8 amended: when the interrupt is received in source resolution and the
\* pipeline is suspended in resolution then, or suspends in resolution
\* afterwards, run_wasi returns Ok(0) and no executor is ever built or run.
C8_CancelledInResolution ==
    (sig.at \in Resolution /\ sig.parked \in Resolution) =>
        /\ executors = {}
        /\ cur = "none"
        /\ futures_list = <<>>
        /\ phase \in Resolution
        /\ blockOn \in {"none", "aborted"}
        /\ pc = "done" => result = OkCode(0)

\* The interrupt arrived inside a poll of to_locked_app, which then
\* returned Pending; run_wasi returned 0.
C8_Witness ==
    /\ sig.at = "to_locked_app"
    /\ sig.polling
    /\ sig.parked = "to_locked_app"
    /\ pc = "done"
    /\ result = OkCode(0)

\* ----------------------------------------------------------------------- C9
NoTaskRunning ==
    \A i \in 1..Len(futures_list) : futures_list[i].st \in {"done", "dropped"}

C10_BindingErrorBeforeTriggers ==
    ~BindOk(app, env) =>
        /\ executors = {}
        /\ cur = "none"
        /\ futures_list = <<>>
        /\ entered \cap {"triggers", "telemetry", "run_trigger", "select_all"} = {}
        /\ "bind" \in entered =>
              /\ inner = "bind"
              /\ blockOn = "ok_err"
        /\ (pc = "done" /\ "bind" \in entered) => result = ErrResult("bind")

\* api_key is required and unset: run_wasi returned the binding error.
C10_Witness ==
    /\ app.required = {"api_key"}
    /\ env.vars = {}
    /\ "bind" \in entered
    /\ pc = "done"
    /\ result = ErrResult("bind")

\* ---------------------------------------------------------------------- C11
\* C11: no error is swallowed. Whenever a phase of the pipeline (cache init,
\* resolution, binding, trigger selection, trigger construction, a trigger
\* task) completed with an error, block_on yields Ok(Err(err)) and run_wasi
\* returns Err(err), never an exit code, whether or not the interrupt handler
\* fired before run_wasi returned.
C11_NoErrorSwallowed ==
    inner \notin {"none", "ok"} =>
        /\ phase = "returned"
        /\ blockOn = "ok_err"
        /\ pc = "done" => /\ result.tag = "err"
                          /\ result.err = inner
                          /\ result # OkCode(0)

\* A trigger task failed in a poll during which the interrupt handler fired,
\* and run_wasi returned the task's error.
C11_Witness ==
    /\ pc = "done"
    /\ aborted
    /\ sig.polling
    /\ inner = "trigger"
    /\ result = ErrResult("trigger")

\* ---------------------------------------------------------------------- C12
\* Componentization or compilation fails for layer l.
LayerFails(l) ==
    /\ IsWasmContent(l)
    /\ ~DetectPrecompiled(l.layer)
    /\ \/ ~Componentize(l.layer).ok
       \/ ~PrecompileComponent(Componentize(l.layer).bytes).ok

FailingLayers == {i \in 1..Len(layers) : LayerFails(layers[i])}

\* C12: when componentization or compilation fails for a Wasm layer at any
\* position, precompile never returns Ok: what it returns is the error of
\* the first failing layer and no slot at all, however many earlier layers
\* were mapped successfully; and it returns an error in no other case.
C12_FailureAbortsPrecompile ==
    /\ FailingLayers # {} => pout.tag # "ok"
    /\ pout.tag = "err" =>
          /\ pout.slots = <<>>
          /\ \E i \in FailingLayers :
                /\ \A j \in FailingLayers : i <= j
                /\ Len(slots) = i - 1
                /\ pout.err = IF Componentize(layers[i].layer).ok
                              THEN "compile" ELSE "componentize"

\* The third layer is rejected by the compiler after a module and a data
\* blob were mapped successfully.
C12_Witness ==
    /\ pout.tag = "err"
    /\ pout.err = "compile"
    /\ Len(layers) = 3
    /\ Len(slots) = 2
    /\ slots[1] = Some(Bytes("cwasm", "a", TRUE))
    /\ LayerFails(layers[3])

C16_CompiledFromComponent ==
    pout.tag = "ok" =>
        \A i \in 1..Len(layers) :
            IsWasmContent(layers[i]) /\ ~DetectPrecompiled(layers[i].layer) =>
                LET c == Componentize(layers[i].layer)
                    p == PrecompileComponent(c.bytes)
                IN /\ c.ok /\ p.ok
                   /\ pout.slots[i] = Some(p.bytes)
                   /\ {<<i, "componentize">>, <<i, "precompile_component">>}
                         \subseteq invoked
                   /\ layers[i].layer.fmt = "module" =>
                         /\ pout.slots[i].bytes # NoBytes
                         /\ pout.slots[i].bytes # layers[i].layer
                         /\ pout.slots[i].bytes.adapted

\* A raw module and a raw component were compiled in one call.
C16_Witness ==
    /\ pout.tag = "ok"
    /\ Len(layers) = 2
    /\ layers[1] = [media |-> "wasm", layer |-> Bytes("module", "b", FALSE)]
    /\ layers[2] = [media |-> "wasm", layer |-> Bytes("component", "a", FALSE)]
    /\ pout.slots = <<Some(Bytes("cwasm", "b", TRUE)),
                      Some(Bytes("cwasm", "a", FALSE))>>

\* ---------------------------------------------------------------------- C15
\* The errors of the three setup statements of run_wasi.
SetupErrors == {"redirect", "runtime", "handler"}

\* No statement of the pipeline has run.
PipelineUntouched ==
    /\ ~polling
    /\ blockOn = "none"
    /\ phase = "cache"
    /\ inner = "none"
    /\ entered = {}
    /\ completed = {}
    /\ executors = {}
    /\ futures_list = <<>>

\* C15: a failure of stdio redirection, of runtime creation or of the
\* registration of the interrupt handler is what run_wasi returns, and then
\* no phase of the pipeline has run; and the pipeline is polled only after
\* the interrupt handler was installed successfully.
C15_SetupPrecedesPipeline ==
    /\ result.tag = "err" /\ result.err \in SetupErrors =>
          /\ pc = "done"
          /\ PipelineUntouched
    /\ pc = "done" /\ ~installed =>
          /\ result.tag = "err"
          /\ result.err \in SetupErrors
    /\ ~installed => PipelineUntouched /\ ~aborted
    /\ pc = "block_on" => installed

\* The registration of the interrupt handler failed and run_wasi returned
\* its error.
C15_Witness ==
    /\ pc = "done"
    /\ ~installed
    /\ result = ErrResult("handler")
    /\ PipelineUntouched

\* ---------------------------------------------------------------------- C17
\* C17: the list of kind labels and the list of run tasks have the same
\* length and the same order, the index select_all reports is an index of
\* the label list, and the label reported as exited is the kind of the task
\* that completed first, whose result the supervisor returns.
C17_LabelOfWinner ==
    /\ Len(trigger_type_map) = Len(futures_list)
    /\ \A i \in 1..Len(trigger_type_map) :
          trigger_type_map[i] = futures_list[i].kind
    /\ winner.index = 0 => winner = NoWinner
    /\ winner.index # 0 =>
          /\ winner.index \in 1..Len(trigger_type_map)
          /\ winner.label = trigger_type_map[winner.index]
          /\ winner.label = futures_list[winner.index].kind
          /\ futures_list[winner.index].st = "done"
          /\ \A j \in 1..Len(futures_list) :
                futures_list[j].st = "done" => futures_list[j].kind = winner.label
          /\ inner = winner.res

\* Of two tasks the second in the list completed first, with an error, and
\* its label is the one reported.
C17_Witness ==
    /\ Len(futures_list) = 2
    /\ winner.index = 2
    /\ winner.res = "trigger"
    /\ winner.label = "redis"
    /\ futures_list[2].kind = "redis"
    /\ futures_list[2].st = "done"
    /\ futures_list[1].st = "dropped"

\* ---------------------------------------------------------------------- C18
\* SPIN_HTTP_LISTEN_ADDR is set to a string that is no host:port.
BadListenAddr == env.addr # "unset" /\ ~ParseAddr(env.addr).ok

\* No run task has ever been polled.
NoTaskStarted ==
    \A i \in 1..Len(futures_list) :
        /\ futures_list[i].polls = 0
        /\ futures_list[i].st \in {"created", "dropped"}

\* C18: with the HTTP kind in the trigger set and a listen address that
\* does not parse, no run task of any kind is ever polled and select_all is
\* never reached; no HTTP task exists; and once the HTTP executor is built
\* the pipeline has failed with the address error, the tasks obtained for
\* earlier kinds are dropped unpolled, and run_wasi returns that error.
\* The default address parses.
C18_BadAddressRunsNothing ==
    /\ ParseAddr(SPIN_ADDR_DEFAULT).ok
    /\ "http" \in app.triggers /\ BadListenAddr =>
          /\ NoTaskStarted
          /\ "select_all" \notin entered
          /\ ~Launched
          /\ winner = NoWinner
          /\ "http" \notin TaskKinds
          /\ inner # "ok"
          /\ "http" \in executors =>
                /\ inner = "addr"
                /\ blockOn = "ok_err"
                /\ \A i \in 1..Len(futures_list) : futures_list[i].st = "dropped"
                /\ pc = "done" => result = ErrResult("addr")

\* The Command executor was built and its task obtained before the HTTP
\* arm failed on the address: the task is dropped unpolled and run_wasi
\* returns the address error.
C18_Witness ==
    /\ app.triggers = {"command", "http"}
    /\ BadListenAddr
    /\ executors = {"command", "http"}
    /\ Len(futures_list) = 1
    /\ futures_list[1] = [kind |-> "command", st |-> "dropped", polls |-> 0]
    /\ pc = "done"
    /\ result = ErrResult("addr")

\* ---------------------------------------------------------------------- C19
\* C19: while the for loop of run_trigger is building executors no run task
\* has been polled; a task is polled only after an executor was built for
\* every kind of the set and the loop has ended; executors are built one
\* kind at a time; and when building an executor fails the pipeline ends
\* with that error and the tasks obtained for earlier kinds are dropped
\* without ever having been polled.
C19_NoTaskBeforeAllBuilt ==
    /\ []((~Launched => NoTaskStarted)
          /\ (~NoTaskStarted =>
                /\ executors = trigger_types
                /\ TaskKinds = trigger_types
                /\ "select_all" \in entered)
          /\ (inner \in {"build", "addr"} =>
                /\ NoTaskStarted
                /\ ~Launched
                /\ \A i \in 1..Len(futures_list) :
                      futures_list[i].st = "dropped"
                /\ pc = "done" => result = ErrResult(inner)))
    /\ [][Cardinality(executors') <= Cardinality(executors) + 1]_vars

\* The second executor could not be built: the task of the first kind is
\* dropped unpolled and run_wasi returns the build error.
C19_Witness ==
    /\ inner = "build"
    /\ Cardinality(trigger_types) = 2
    /\ Cardinality(executors) = 1
    /\ Len(futures_list) = 1
    /\ futures_list[1].st = "dropped"
    /\ futures_list[1].polls = 0
    /\ pc = "done"
    /\ result = ErrResult("build")

====
